---------------------------- MODULE Spec2Model ----------------------------
(***************************************************************************)
(* A model of the omnimizer health-data pipeline (src/insight_engine.py):  *)
(* parse_xml and run_engine, from the Apple Health export to the daily     *)
(* table.                                                                  *)
(*                                                                         *)
(* Numbers.  Python floats are modelled as exact rationals <<n, d>> with   *)
(* d > 0 in lowest terms; NaN is <<0, 0>>.  The value domain of the inputs *)
(* is finite numbers: the literals "nan" and "inf", which float() also     *)
(* accepts, are outside the inputs enumerated here; body masses and        *)
(* targets are positive, so that no division is by zero (in floats such a  *)
(* quotient is an infinity or NaN, never an exception).                    *)
(*                                                                         *)
(* Time.  A calendar day is an integer; an instant is <<day, tod>> with    *)
(* tod = 0 at midnight and 1 later in the day, so that datetime.now() may  *)
(* fall at midnight or after it.                                           *)
(***************************************************************************)
EXTENDS Integers, Sequences, FiniteSets, TLC

\* ------------------------------------------------------------------ bounds

\* Records in one export document.
MaxRecs == 3
\* Records in an export that spells its days in two ways (SpecSpelled).
MaxSpelledRecs == 4
\* Calendar days an export may mention: 1..MaxDay.
MaxDay == 5
\* rolling_window and macrocycle_days, the configuration run_engine is invoked
\* with (its defaults are 14 and 90).
RollingWindow == 2
MacrocycleDays == 2

\* The day on which run_engine is invoked: the last day but one, so that an
\* export can hold a record dated after it.
Today == MaxDay - 1

\* ------------------------------------------------------------- arithmetic

NaN == <<0, 0>>

IsNaN(x) == x[2] = 0

Abs(n) == IF n < 0 THEN -n ELSE n

RECURSIVE GCD(_, _)
GCD(a, b) == IF b = 0 THEN a ELSE GCD(b, a % b)

\* The rational n/d (d # 0) in lowest terms with a positive denominator.
Rat(n, d) ==
    LET g == GCD(Abs(n), Abs(d))
        s == IF d < 0 THEN -1 ELSE 1
    IN  <<(s * n) \div g, (s * d) \div g>>

Num(n) == <<n, 1>>

\* Float arithmetic: NaN propagates.
FAdd(x, y) ==
    IF IsNaN(x) \/ IsNaN(y) THEN NaN
    ELSE Rat(x[1] * y[2] + y[1] * x[2], x[2] * y[2])

FSub(x, y) ==
    IF IsNaN(x) \/ IsNaN(y) THEN NaN
    ELSE Rat(x[1] * y[2] - y[1] * x[2], x[2] * y[2])

FDivInt(x, k) == IF IsNaN(x) \/ k = 0 THEN NaN ELSE Rat(x[1], x[2] * k)

\* x > 0 as Python compares floats: False for NaN.
FPositive(x) == ~IsNaN(x) /\ x[1] > 0

FMul(x, y) ==
    IF IsNaN(x) \/ IsNaN(y) THEN NaN ELSE Rat(x[1] * y[1], x[2] * y[2])

\* x / y for y # 0; NaN propagates.
FDiv(x, y) ==
    IF IsNaN(x) \/ IsNaN(y) \/ y[1] = 0 THEN NaN
    ELSE Rat(x[1] * y[2], x[2] * y[1])

FAbs(x) == IF IsNaN(x) THEN NaN ELSE <<Abs(x[1]), x[2]>>

\* x < y as Python compares floats: False when either is NaN.
FLess(x, y) == ~IsNaN(x) /\ ~IsNaN(y) /\ x[1] * y[2] < y[1] * x[2]

\* ------------------------------------------------------------ the export

STEP_TYPE == "HKQuantityTypeIdentifierStepCount"
SLEEP_TYPE == "HKCategoryTypeIdentifierSleepAnalysis"
BODY_MASS == "HKQuantityTypeIdentifierBodyMass"
ENERGY == "HKQuantityTypeIdentifierDietaryEnergyConsumed"
WATER == "HKQuantityTypeIdentifierDietaryWater"
\* A record type the engine does not know.
OTHER_TYPE == "HKQuantityTypeIdentifierHeartRate"

\* METRICS_MAP: type -> <<metric, aggregation>>.
METRICS_MAP ==
    [t \in {BODY_MASS, ENERGY, WATER} |->
        CASE t = BODY_MASS -> <<"weight", "last">>
          [] t = ENERGY -> <<"calories", "sum">>
          [] t = WATER -> <<"water", "sum">>]

SLEEP_VALUES == {"HKCategoryValueSleepAnalysisAsleepCore",
                 "HKCategoryValueSleepAnalysisAsleepREM",
                 "HKCategoryValueSleepAnalysisAsleepDeep",
                 "HKCategoryValueSleepAnalysisAsleep"}

Metrics == <<"weight", "calories", "steps", "water", "sleep">>

\* startDate[:10], the key of a day in parse_xml.  "iso" and "alt" are two
\* spellings pd.to_datetime reads as the same day (zero-padded or not);
\* "garbage" is a non-empty string it cannot read; "empty" is ''.
Days == 1..MaxDay
DateKey(form, day) == [form |-> form, day |-> day]
EmptyKey == DateKey("empty", 0)
GarbageKey == DateKey("garbage", 0)

\* A Record element.  value: <<>> when the attribute is missing or float()
\* raises ValueError, else <<v>>.  duration: <<>> when startDate or endDate
\* is missing or datetime.fromisoformat raises, else <<hours>>, the length
\* (end - start) in hours.
Record(type, key, value, source, category, duration) ==
    [type |-> type, date |-> key, value |-> value, sourceName |-> source,
     category |-> category, duration |-> duration]

\* ------------------------------------------------------------- parse_xml

\* data: the dict of parse_xml, as the sequence of its entries in insertion
\* order.  An entry is a date string with its dict: cols are the dict's keys
\* in insertion order and m its values; a metric that is not a key is NaN in
\* m, which is what DataFrame.from_dict makes of it.
NoMetrics == [weight |-> NaN, calories |-> NaN, steps |-> NaN, water |-> NaN,
              sleep |-> NaN]

Entry(key, m, cols) == [key |-> key, m |-> m, cols |-> cols]

Contains(seq, x) == \E i \in 1..Len(seq) : seq[i] = x

HasKey(data, key) == \E i \in 1..Len(data) : data[i].key = key

IndexOf(data, key) == CHOOSE i \in 1..Len(data) : data[i].key = key

\* if date_str not in data: data[date_str] = {}
EnsureKey(data, key) ==
    IF HasKey(data, key) THEN data
    ELSE Append(data, Entry(key, NoMetrics, <<>>))

\* data[date_str][metric] = v
SetMetric(data, key, metric, v) ==
    LET i == IndexOf(data, key)
    IN  [data EXCEPT ![i].m = [@ EXCEPT ![metric] = v],
                     ![i].cols = IF Contains(@, metric) THEN @
                                 ELSE Append(@, metric)]

\* data[date_str].get(metric, 0)
GetMetric(data, key, metric) ==
    LET v == data[IndexOf(data, key)].m[metric]
    IN  IF IsNaN(v) THEN Num(0) ELSE v

\* step_sources[date_str][source] = step_sources[date_str].get(source, 0) + value
\* step_sources is a function from <<date_str, source>> to the total.
AddSteps(ss, key, source, v) ==
    LET k == <<key, source>>
        old == IF k \in DOMAIN ss THEN ss[k] ELSE Num(0)
    IN  [p \in DOMAIN ss \cup {k} |-> IF p = k THEN FAdd(old, v) ELSE ss[p]]

\* One pass of the loop over root.findall('Record').
ParseRecord(st, r) ==
    IF r.date = EmptyKey THEN st
    ELSE
    LET data == EnsureKey(st.data, r.date)
        st1 == [st EXCEPT !.data = data]
    IN  CASE r.type = STEP_TYPE ->
               IF r.value = <<>> THEN st1
               ELSE [st1 EXCEPT !.step_sources =
                        AddSteps(@, r.date, r.sourceName, Num(r.value[1]))]
          [] r.type \in DOMAIN METRICS_MAP ->
               LET metric == METRICS_MAP[r.type][1]
                   agg == METRICS_MAP[r.type][2]
               IN  IF r.value = <<>> THEN st1
                   ELSE IF agg = "last"
                   THEN [st1 EXCEPT !.data =
                            SetMetric(data, r.date, metric, Num(r.value[1]))]
                   ELSE [st1 EXCEPT !.data =
                            SetMetric(data, r.date, metric,
                                FAdd(GetMetric(data, r.date, metric),
                                     Num(r.value[1])))]
          [] r.type = SLEEP_TYPE ->
               IF r.category \notin SLEEP_VALUES THEN st1
               ELSE IF r.duration = <<>> THEN st1
               ELSE [st1 EXCEPT !.data =
                        SetMetric(data, r.date, "sleep",
                            FAdd(GetMetric(data, r.date, "sleep"),
                                 Num(r.duration[1])))]
          [] OTHER -> st1

RECURSIVE ParseLoop(_, _, _)
ParseLoop(st, recs, i) ==
    IF i > Len(recs) THEN st
    ELSE ParseLoop(ParseRecord(st, recs[i]), recs, i + 1)

\* Mutant of NonZero: every source of the date is averaged, zero or not.
NonZeroEverySource(ss, key) == {p \in DOMAIN ss : p[1] = key}

\* non_zero = [v for v in sources.values() if v > 0]
NonZero(ss, key) == {p \in DOMAIN ss : p[1] = key /\ FPositive(ss[p])}

RECURSIVE SumOver(_, _)
SumOver(ss, ps) ==
    IF ps = {} THEN Num(0)
    ELSE LET p == CHOOSE q \in ps : TRUE
         IN  FAdd(ss[p], SumOver(ss, ps \ {p}))

\* sum(non_zero) / len(non_zero), for a date with a non-zero source.
StepAverage(ss, key) ==
    LET nz == NonZero(ss, key)
    IN  IF nz = {} THEN NaN ELSE FDivInt(SumOver(ss, nz), Cardinality(nz))

\* The loop over step_sources.items() after the scan.
AverageSteps(st) ==
    [i \in 1..Len(st.data) |->
        LET avg == StepAverage(st.step_sources, st.data[i].key)
        IN  IF IsNaN(avg) THEN st.data[i]
            ELSE [st.data[i] EXCEPT !.m.steps = avg,
                                    !.cols = Append(@, "steps")]]

\* The dict parse_xml hands to DataFrame.from_dict.
ParseData(recs) ==
    AverageSteps(ParseLoop([data |-> <<>>, step_sources |-> <<>>], recs, 1))

\* A row of a DataFrame: a date and the five metric columns.
Row(date, m) ==
    [date |-> date, weight |-> m.weight, calories |-> m.calories,
     steps |-> m.steps, water |-> m.water, sleep |-> m.sleep]

\* Mutant of FromDict: every key of data becomes a row, its dict empty or not.
FromDictKeepEmpty(data) == data

\* The columns of the frame: the metrics in the order data first mentions
\* them, date by date (_from_nested_dict).
RECURSIVE ColumnsFrom(_, _, _)
ColumnsFrom(data, i, seen) ==
    IF i > Len(data) THEN seen
    ELSE LET new == SelectSeq(data[i].cols, LAMBDA c : ~Contains(seen, c))
         IN  ColumnsFrom(data, i + 1, seen \o new)

\* The index of the frame: the union of the keys of the columns, column by
\* column, each in the order of data; a date whose dict is empty is in none.
RECURSIVE IndexFrom(_, _, _, _)
IndexFrom(data, columns, j, seen) ==
    IF j > Len(columns) THEN seen
    ELSE LET new == SelectSeq(data,
                 LAMBDA e : Contains(e.cols, columns[j]) /\ ~Contains(seen, e))
         IN  IndexFrom(data, columns, j + 1, seen \o new)

\* DataFrame.from_dict(data, orient='index'): the rows, in index order.
FromDict(data) == IndexFrom(data, ColumnsFrom(data, 1, <<>>), 1, <<>>)

\* pd.to_datetime on one date string: the day, for either spelling.
ToDatetime(key) == key.day

\* pd.to_datetime raises on a string that is no date.
ToDatetimeRaises(df) == \E i \in 1..Len(df) : df[i].key.form = "garbage"

Reverse(s) == [i \in 1..Len(s) |-> s[Len(s) + 1 - i]]

\* df.sort_values('date'): ascending by date.  Rows of one date keep the order
\* of the index: numpy's quicksort sorts a frame of this size by insertion.
RECURSIVE SortFrom(_, _)
SortFrom(rows, d) ==
    IF d > MaxDay THEN <<>>
    ELSE SelectSeq(rows, LAMBDA r : r.date = d) \o SortFrom(rows, d + 1)

SortValues(rows) == SortFrom(rows, 1)

\* parse_xml: the sorted frame, or the exception of pd.to_datetime.
ParseXml(recs) ==
    LET df == FromDict(ParseData(recs))
    IN  IF ToDatetimeRaises(df)
        THEN [raised |-> TRUE, rows |-> <<>>]
        ELSE [raised |-> FALSE,
              rows |-> SortValues(
                  [i \in 1..Len(df) |-> Row(ToDatetime(df[i].key), df[i].m)])]

\* ------------------------------------------------------------ run_engine

\* cutoff = datetime.now() - timedelta(days=macrocycle_days), an instant.
Cutoff(instant, macrocycle_days) ==
    <<instant[1] - macrocycle_days, instant[2]>>

\* df['date'] >= cutoff, the date being midnight of its day.
NotBefore(date, cutoff) ==
    date > cutoff[1] \/ (date = cutoff[1] /\ cutoff[2] = 0)

\* df[df['date'] >= cutoff]
FilterWindow(rows, cutoff) ==
    SelectSeq(rows, LAMBDA r : NotBefore(r.date, cutoff))

\* groupby(...).agg('sum'): NaN is skipped, and a group of NaN alone sums to 0.
RECURSIVE GroupSum(_, _, _)
GroupSum(rows, col, i) ==
    IF i > Len(rows) THEN Num(0)
    ELSE IF IsNaN(rows[i][col]) THEN GroupSum(rows, col, i + 1)
    ELSE FAdd(rows[i][col], GroupSum(rows, col, i + 1))

\* groupby(...).agg('last'): the last value that is not NaN, NaN if none is.
RECURSIVE GroupLast(_, _, _)
GroupLast(rows, col, i) ==
    IF i = 0 THEN NaN
    ELSE IF IsNaN(rows[i][col]) THEN GroupLast(rows, col, i - 1)
    ELSE rows[i][col]

AggRow(d, grp) ==
    [date |-> d,
     weight |-> GroupLast(grp, "weight", Len(grp)),
     calories |-> GroupSum(grp, "calories", 1),
     steps |-> GroupSum(grp, "steps", 1),
     water |-> GroupSum(grp, "water", 1),
     sleep |-> GroupSum(grp, "sleep", 1)]

\* Mutant of GroupByDate: the aggregation by date is left out.
GroupByDateSkipped(rows) == rows

\* df.groupby('date', as_index=False).agg(...): one row per date, ascending.
RECURSIVE GroupFrom(_, _)
GroupFrom(rows, d) ==
    IF \A i \in 1..Len(rows) : rows[i].date < d THEN <<>>
    ELSE LET grp == SelectSeq(rows, LAMBDA r : r.date = d)
         IN  (IF grp = <<>> THEN <<>> ELSE <<AggRow(d, grp)>>)
                 \o GroupFrom(rows, d + 1)

GroupByDate(rows) == GroupFrom(rows, 1)

\* Series.ffill(): carry the last valid value forward.
RECURSIVE Ffill(_, _, _)
Ffill(col, i, last) ==
    IF i > Len(col) THEN <<>>
    ELSE LET v == IF IsNaN(col[i]) THEN last ELSE col[i]
         IN  <<v>> \o Ffill(col, i + 1, v)

\* Series.bfill(): carry the next valid value backward.
Bfill(col) == Reverse(Ffill(Reverse(col), 1, NaN))

Column(rows, c) == [i \in 1..Len(rows) |-> rows[i][c]]

\* Mutant of FillWeight: the back-fill is left out.
FillWeightForwardOnly(rows) ==
    LET w == Ffill(Column(rows, "weight"), 1, NaN)
    IN  [i \in 1..Len(rows) |-> [rows[i] EXCEPT !.weight = w[i]]]

\* df['weight'] = df['weight'].ffill().bfill()
FillWeight(rows) ==
    LET w == Bfill(Ffill(Column(rows, "weight"), 1, NaN))
    IN  [i \in 1..Len(rows) |-> [rows[i] EXCEPT !.weight = w[i]]]

\* Series.rolling(window, min_periods=1).mean(), as pandas computes it: a
\* running sum and count of the values that are not NaN, each row adding its
\* value and removing the one that leaves the window.
RECURSIVE RollFrom(_, _, _, _, _)
RollFrom(col, window, i, sum, nobs) ==
    IF i > Len(col) THEN <<>>
    ELSE LET out == i - window
             s1 == IF out >= 1 /\ ~IsNaN(col[out]) THEN FSub(sum, col[out])
                   ELSE sum
             n1 == IF out >= 1 /\ ~IsNaN(col[out]) THEN nobs - 1 ELSE nobs
             s2 == IF IsNaN(col[i]) THEN s1 ELSE FAdd(s1, col[i])
             n2 == IF IsNaN(col[i]) THEN n1 ELSE n1 + 1
         IN  <<IF n2 >= 1 THEN FDivInt(s2, n2) ELSE NaN>>
                 \o RollFrom(col, window, i + 1, s2, n2)

RollingMean(col, window) == RollFrom(col, window, 1, Num(0), 0)

\* (df['date'] - df['date'].min()).dt.days
DayInCycle(date, first) == date - first

\* Mutant of Period: the blocks are counted from day 0 of the calendar, not
\* from the first date of the table.
PeriodFromEpoch(date, first, window) == (date \div window) + 1

\* (df['day_in_cycle'] // rolling_window) + 1
Period(date, first, window) == (DayInCycle(date, first) \div window) + 1

\* f"Period {int(p)}"
PeriodLabel(p) == "Period " \o ToString(p)

\* The rolling averages and the period columns added to the aggregated rows.
AddFeatures(rows, window) ==
    LET wa == RollingMean(Column(rows, "weight"), window)
        ca == RollingMean(Column(rows, "calories"), window)
        sa == RollingMean(Column(rows, "steps"), window)
        ta == RollingMean(Column(rows, "water"), window)
        la == RollingMean(Column(rows, "sleep"), window)
        first == rows[1].date
    IN  [i \in 1..Len(rows) |->
            [date |-> rows[i].date,
             weight |-> rows[i].weight, calories |-> rows[i].calories,
             steps |-> rows[i].steps, water |-> rows[i].water,
             sleep |-> rows[i].sleep,
             weight_avg |-> wa[i], calories_avg |-> ca[i],
             steps_avg |-> sa[i], water_avg |-> ta[i], sleep_avg |-> la[i],
             day_in_cycle |-> DayInCycle(rows[i].date, first),
             period |-> Period(rows[i].date, first, window),
             period_label |->
                 PeriodLabel(Period(rows[i].date, first, window))]]

\* targets: the dict run_engine is given, as a record of optional values
\* (<<>> for a key the dict does not hold).
TargetKeys == {"weight_change_pct_per_week", "calories", "steps", "water",
               "sleep"}

\* The defaults of targets.get(key, default).
DefaultTargets ==
    [weight_change_pct_per_week |-> Rat(-3, 4), calories |-> Num(2850),
     steps |-> Num(7000), water |-> Num(2500), sleep |-> Rat(15, 2)]

\* targets.get(key, default)
TargetOf(targets, key) ==
    IF targets[key] = <<>> THEN DefaultTargets[key] ELSE targets[key][1]

\* Series.pct_change(periods): col[i] / col[i - periods] - 1, NaN for the
\* first periods rows.
PctChange(col, periods) ==
    [i \in 1..Len(col) |->
        IF i <= periods THEN NaN
        ELSE FSub(FDiv(col[i], col[i - periods]), Num(1))]

\* Mutant of WeightPctChange: the change is taken from the previous row
\* (periods left at its default of 1).
WeightPctChangeOneRow(rows, window) ==
    LET pc == PctChange(Column(rows, "weight_avg"), 1)
    IN  [i \in 1..Len(rows) |-> FMul(pc[i], Num(100))]

\* df['weight_avg'].pct_change(periods=rolling_window) * 100
WeightPctChange(rows, window) ==
    LET pc == PctChange(Column(rows, "weight_avg"), window)
    IN  [i \in 1..Len(rows) |-> FMul(pc[i], Num(100))]

\* (avg - target) / target * 100
Deviation(avg, target) == FMul(FDiv(FSub(avg, target), target), Num(100))

\* w = dict(weight=0.35, cal=0.25, steps=0.15, water=0.15, sleep=0.10)
ScoreWeights ==
    [weight |-> Rat(35, 100), cal |-> Rat(25, 100), steps |-> Rat(15, 100),
     water |-> Rat(15, 100), sleep |-> Rat(10, 100)]

\* Mutant of CompositeScore: a missing weight_pct_change counts as 0.
CompositeScoreZeroFill(wchg, target_weight_chg, cal_dev, steps_dev, water_dev, sleep_dev) ==
    LET w == ScoreWeights
        chg == IF IsNaN(wchg) THEN Num(0) ELSE wchg
    IN  FAdd(FAdd(FAdd(FAdd(
            FMul(w.weight, FAbs(FSub(chg, target_weight_chg))),
            FMul(w.cal, FAbs(cal_dev))),
            FMul(w.steps, FAbs(steps_dev))),
            FMul(w.water, FAbs(water_dev))),
            FMul(w.sleep, FAbs(sleep_dev)))

\* df['composite_score']: the weighted sum of the absolute deviations.
CompositeScore(wchg, target_weight_chg, cal_dev, steps_dev, water_dev, sleep_dev) ==
    LET w == ScoreWeights
    IN  FAdd(FAdd(FAdd(FAdd(
            FMul(w.weight, FAbs(FSub(wchg, target_weight_chg))),
            FMul(w.cal, FAbs(cal_dev))),
            FMul(w.steps, FAbs(steps_dev))),
            FMul(w.water, FAbs(water_dev))),
            FMul(w.sleep, FAbs(sleep_dev)))

TOLERANCE == Rat(3, 10)

\* The labels of recommend, without their leading emoji and with "->" for
\* the arrow.
INSUFFICIENT == "Insufficient data"
ALIGNED == "Behaviours aligned -> hold steady"
TOO_SLOW == "Loss too slow -> reduce calories slightly"
TOO_AGGRESSIVE == "Loss too aggressive -> increase calories slightly"
SLEEP_DEFICIT == "Sleep deficit detected -> prioritise recovery"
UNDER_HYDRATED == "Under-hydrated -> increase daily water intake"
MONITOR == "Monitor trend -> small adjustments if needed"

\* Mutant of Recommend: the sleep and water rules come before the two rules
\* on the weight change.
RecommendSleepFirst(row, target_weight_chg) ==
    IF IsNaN(row.composite_score) \/ IsNaN(row.weight_pct_change)
    THEN INSUFFICIENT
    ELSE IF FLess(row.composite_score, TOLERANCE) THEN ALIGNED
    ELSE IF FLess(row.sleep_dev, Num(-20)) THEN SLEEP_DEFICIT
    ELSE IF FLess(row.water_dev, Num(-20)) THEN UNDER_HYDRATED
    ELSE IF FLess(FAdd(target_weight_chg, TOLERANCE), row.weight_pct_change)
    THEN TOO_SLOW
    ELSE IF FLess(row.weight_pct_change, FSub(target_weight_chg, TOLERANCE))
    THEN TOO_AGGRESSIVE
    ELSE MONITOR

\* recommend(row): row.get('sleep_dev', 0) reads the column, which every row
\* has, and a comparison with NaN is False.
Recommend(row, target_weight_chg) ==
    IF IsNaN(row.composite_score) \/ IsNaN(row.weight_pct_change)
    THEN INSUFFICIENT
    ELSE IF FLess(row.composite_score, TOLERANCE) THEN ALIGNED
    ELSE IF FLess(FAdd(target_weight_chg, TOLERANCE), row.weight_pct_change)
    THEN TOO_SLOW
    ELSE IF FLess(row.weight_pct_change, FSub(target_weight_chg, TOLERANCE))
    THEN TOO_AGGRESSIVE
    ELSE IF FLess(row.sleep_dev, Num(-20)) THEN SLEEP_DEFICIT
    ELSE IF FLess(row.water_dev, Num(-20)) THEN UNDER_HYDRATED
    ELSE MONITOR

\* The columns of one row that the deviations, the score and recommend add.
Scored(row, wchg, targets) ==
    LET t == TargetOf(targets, "weight_change_pct_per_week")
        base == [weight_pct_change |-> wchg,
                 cal_dev |-> Deviation(row.calories_avg,
                                       TargetOf(targets, "calories")),
                 steps_dev |-> Deviation(row.steps_avg,
                                         TargetOf(targets, "steps")),
                 water_dev |-> Deviation(row.water_avg,
                                         TargetOf(targets, "water")),
                 sleep_dev |-> Deviation(row.sleep_avg,
                                         TargetOf(targets, "sleep"))]
        score == CompositeScore(wchg, t, base.cal_dev, base.steps_dev,
                                base.water_dev, base.sleep_dev)
        scored == base @@ [composite_score |-> score]
    IN  scored @@ [recommendation |-> Recommend(scored, t)]

\* Lines 135-179 of run_engine on the rows with their rolling averages.
AddScores(rows, targets, window) ==
    LET wchg == WeightPctChange(rows, window)
    IN  [i \in 1..Len(rows) |-> rows[i] @@ Scored(rows[i], wchg[i], targets)]

\* run_engine(xml_bytes, targets, macrocycle_days, rolling_window), invoked at
\* the instant now: the table, or the exception it ends with.
RunEngine(recs, targets, instant, macrocycle_days, window) ==
    LET parsed == ParseXml(recs)
        df == FilterWindow(parsed.rows, Cutoff(instant, macrocycle_days))
    IN  IF parsed.raised THEN [raised |-> TRUE, rows |-> <<>>]
        ELSE IF df = <<>> THEN [raised |-> FALSE, rows |-> <<>>]
        ELSE [raised |-> FALSE,
              rows |-> AddScores(
                  AddFeatures(FillWeight(GroupByDate(df)), window),
                  targets, window)]

\* --------------------------------------------------------- the state machine

VARIABLES
    xml,      \* the export: the Record elements written so far, in document order
    pc,       \* "writing" while the export is written, "done" after run_engine
    now,      \* datetime.now() as run_engine read it
    targets,  \* the targets run_engine was given
    data,     \* the dict parse_xml built in that run (its line 85)
    result,   \* what run_engine returned, or that it raised
    rerun,    \* the later invocations on the same export: instant and result
    cache,    \* the rows of the table dashboard_cache, in the order stored
    pushed,   \* per client, the table last handed to push_to_supabase
    utcnow,   \* datetime.utcnow(), counted in pushes
    report,   \* how the last run of process_client's main ended
    shown,    \* what render_client showed last, and for which client
    session,  \* st.session_state: role, client_id, client_name
    screen,   \* what the last run of app.py rendered
    event     \* what the user did last, and the access code submitted last

storeVars == <<cache, pushed, utcnow, report, shown>>
sessionVars == <<session, screen, event>>
vars == <<xml, pc, now, targets, data, result, rerun, storeVars, sessionVars>>

\* Python's None is <<>>, a value v is <<v>>.
None == <<>>

\* The dates an export mentions.
Iso(d) == DateKey("iso", d)
Alt(d) == DateKey("alt", d)
Asleep == "HKCategoryValueSleepAnalysisAsleepCore"
InBed == "HKCategoryValueSleepAnalysisInBed"

StepRecords ==
    {Record(STEP_TYPE, Iso(Today), v, "A", "", <<>>) :
        v \in {<<>>, <<-1>>, <<0>>, <<2>>}}
    \cup {Record(STEP_TYPE, Iso(Today), v, "B", "", <<>>) :
              v \in {<<0>>, <<2>>}}
    \cup {Record(STEP_TYPE, Iso(Today + 1), <<2>>, "A", "", <<>>)}

BodyMassRecords ==
    {Record(BODY_MASS, Iso(d), <<1>>, "A", "", <<>>) : d \in Days}
    \cup {Record(BODY_MASS, k, <<2>>, "A", "", <<>>) :
              k \in {Iso(Today), Alt(Today)}}
    \cup {Record(BODY_MASS, Iso(Today), <<>>, "A", "", <<>>)}
    \cup {Record(BODY_MASS, k, <<1>>, "A", "", <<>>) :
              k \in {GarbageKey, EmptyKey}}

DietaryRecords ==
    {Record(ENERGY, Iso(d), <<1>>, "A", "", <<>>) :
        d \in {Today - MacrocycleDays - 1, Today - 1, Today}}
    \cup {Record(ENERGY, Iso(Today), <<>>, "A", "", <<>>)}
    \cup {Record(WATER, Iso(Today), <<1>>, "A", "", <<>>)}

SleepRecords ==
    {Record(SLEEP_TYPE, Iso(Today), <<>>, "A", Asleep, h) :
        h \in {<<>>, <<1>>}}
    \cup {Record(SLEEP_TYPE, Iso(Today), <<>>, "A", InBed, <<1>>)}

OtherRecords ==
    {Record(OTHER_TYPE, k, <<1>>, "A", "", <<>>) :
        k \in {Iso(Today), GarbageKey}}

NoResult == [raised |-> FALSE, rows |-> <<>>]

\* A targets dict without keys, one that leaves the weight change and the
\* sleep target to their defaults, and one that sets every key.
NoTargets == [k \in TargetKeys |-> <<>>]
PartialTargets ==
    [weight_change_pct_per_week |-> <<>>, calories |-> <<Num(1)>>,
     steps |-> <<Num(2)>>, water |-> <<Num(1)>>, sleep |-> <<>>]
SmallTargets ==
    [weight_change_pct_per_week |-> <<Num(0)>>, calories |-> <<Num(1)>>,
     steps |-> <<Num(2)>>, water |-> <<Num(1)>>, sleep |-> <<Num(1)>>]
TargetSets == {PartialTargets, SmallTargets}

\* The rows of the table clients, in the order the store returns them.  Two
\* clients share a PIN; one client is not active; one has
\* targets of their own.
ClientRows ==
    <<[id |-> "c1", name |-> "Ann", pin |-> "111111", active |-> TRUE,
       targets |-> None],
      [id |-> "c2", name |-> "Bob", pin |-> "222222", active |-> FALSE,
       targets |-> None],
      [id |-> "c3", name |-> "Cyd", pin |-> "111111", active |-> TRUE,
       targets |-> <<SmallTargets>>]>>

ClientIds == {ClientRows[i].id : i \in 1..Len(ClientRows)}

InitStore ==
    /\ cache = <<>>
    /\ pushed = [c \in ClientIds |-> None]
    /\ utcnow = 0
    /\ report = "none"
    /\ shown = [client_id |-> None, view |-> "none"]

NoSession == [role |-> None, client_id |-> None, client_name |-> None]

\* The session defaults of app.py and its first run, which renders the login
\* screen.
InitSession ==
    /\ session = NoSession
    /\ screen = "login"
    /\ event = [kind |-> "open", pin |-> ""]

Init ==
    /\ xml = <<>>
    /\ pc = "writing"
    /\ now = <<Today, 0>>
    /\ targets = NoTargets
    /\ data = <<>>
    /\ result = NoResult
    /\ rerun = <<>>
    /\ InitStore
    /\ InitSession

\* The export gets one more Record element: a step count, ...
WriteStepCount ==
    /\ pc = "writing"
    /\ Len(xml) < MaxRecs
    /\ \E r \in StepRecords : xml' = Append(xml, r)
    /\ UNCHANGED <<pc, now, targets, data, result, rerun, storeVars,
                 sessionVars>>

\* ... a weigh-in, ...
WriteBodyMass ==
    /\ pc = "writing"
    /\ Len(xml) < MaxRecs
    /\ \E r \in BodyMassRecords : xml' = Append(xml, r)
    /\ UNCHANGED <<pc, now, targets, data, result, rerun, storeVars,
                 sessionVars>>

\* ... a meal or a drink, ...
WriteDietary ==
    /\ pc = "writing"
    /\ Len(xml) < MaxRecs
    /\ \E r \in DietaryRecords : xml' = Append(xml, r)
    /\ UNCHANGED <<pc, now, targets, data, result, rerun, storeVars,
                 sessionVars>>

\* ... a sleep interval, ...
WriteSleep ==
    /\ pc = "writing"
    /\ Len(xml) < MaxRecs
    /\ \E r \in SleepRecords : xml' = Append(xml, r)
    /\ UNCHANGED <<pc, now, targets, data, result, rerun, storeVars,
                 sessionVars>>

\* ... or a record of a type the engine does not know.
WriteOther ==
    /\ pc = "writing"
    /\ Len(xml) < MaxRecs
    /\ \E r \in OtherRecords : xml' = Append(xml, r)
    /\ UNCHANGED <<pc, now, targets, data, result, rerun, storeVars,
                 sessionVars>>

\* One invocation of run_engine on the export.
Run ==
    /\ pc = "writing"
    /\ \E tod \in {0, 1}, t \in TargetSets :
          /\ now' = <<Today, tod>>
          /\ targets' = t
          /\ result' = RunEngine(xml, t, <<Today, tod>>, MacrocycleDays,
                                 RollingWindow)
    /\ data' = ParseData(xml)
    /\ pc' = "done"
    /\ UNCHANGED <<xml, rerun, storeVars, sessionVars>>

Next ==
    \/ WriteStepCount
    \/ WriteBodyMass
    \/ WriteDietary
    \/ WriteSleep
    \/ WriteOther
    \/ Run

Spec == Init /\ [][Next]_vars

\* Exports of weigh-ins and meals that spell the day of the run in two ways,
\* with a meal before the cutoff.
SpelledRecords ==
    {Record(BODY_MASS, k, v, "A", "", <<>>) :
        k \in {Iso(Today), Alt(Today)}, v \in {<<1>>, <<2>>}}
    \cup {Record(ENERGY, k, <<1>>, "A", "", <<>>) :
              k \in {Iso(Today), Alt(Today), Iso(Today - MacrocycleDays - 1)}}

WriteSpelled ==
    /\ pc = "writing"
    /\ Len(xml) < MaxSpelledRecs
    /\ \E r \in SpelledRecords : xml' = Append(xml, r)
    /\ UNCHANGED <<pc, now, targets, data, result, rerun, storeVars,
                 sessionVars>>

NextSpelled ==
    \/ WriteSpelled
    \/ Run

SpecSpelled == Init /\ [][NextSpelled]_vars

\* The instants at or after the first invocation: later the same day, or
\* the next day.
LaterInstants ==
    {n \in {Today, Today + 1} \X {0, 1} :
        n[1] > now[1] \/ (n[1] = now[1] /\ n[2] >= now[2])}

\* run_engine invoked once more, with the same export, targets and
\* configuration.
RunAgain ==
    /\ pc = "done"
    /\ \E n \in LaterInstants :
          rerun' = <<[now |-> n,
                      result |-> RunEngine(xml, targets, n, MacrocycleDays,
                                           RollingWindow)]>>
    /\ pc' = "again"
    /\ UNCHANGED <<xml, now, targets, data, result, storeVars, sessionVars>>

NextTwice ==
    \/ Next
    \/ RunAgain

SpecTwice == Init /\ [][NextTwice]_vars

\* recommend on its own: rows as df.apply hands them to recommend, drawn
\* around the thresholds of its rules.
ScoreValues == {NaN, Rat(1, 5), Rat(3, 10), Rat(1, 2)}
WeightChangeOffsets ==
    {NaN, Rat(-7, 20), Rat(-3, 10), Num(0), Rat(3, 10), Rat(7, 20)}
DevValues == {NaN, Num(-25), Num(-20), Num(0)}

InitRow ==
    /\ xml = <<>>
    /\ pc = "row"
    /\ now = <<Today, 0>>
    /\ targets \in {NoTargets, SmallTargets}
    /\ data = <<>>
    /\ rerun = <<>>
    /\ InitStore
    /\ InitSession
    /\ \E score \in ScoreValues, off \in WeightChangeOffsets,
          sd \in DevValues, wd \in DevValues :
          result = [raised |-> FALSE,
                    rows |-> <<[composite_score |-> score,
                                weight_pct_change |->
                                    FAdd(TargetOf(targets,
                                        "weight_change_pct_per_week"), off),
                                sleep_dev |-> sd,
                                water_dev |-> wd]>>]

\* df.apply(recommend, axis=1) on the row.
ApplyRecommend ==
    /\ pc = "row"
    /\ result' = [result EXCEPT !.rows =
           [i \in 1..Len(result.rows) |->
               result.rows[i] @@
                   [recommendation |->
                       Recommend(result.rows[i],
                           TargetOf(targets, "weight_change_pct_per_week"))]]]
    /\ pc' = "done"
    /\ UNCHANGED <<xml, now, targets, data, rerun, storeVars, sessionVars>>

NextRecommend == ApplyRecommend

SpecRecommend == InitRow /\ [][NextRecommend]_vars

\* ------------------------------------------ process_client and the dashboard

\* The runs of process_client that push.
MaxPushes == 3

\* df.columns of the table run_engine returns, in order.
CsvColumns ==
    <<"date", "weight", "calories", "steps", "water", "sleep", "weight_avg",
      "calories_avg", "steps_avg", "water_avg", "sleep_avg", "day_in_cycle",
      "period", "period_label", "weight_pct_change", "cal_dev", "steps_dev",
      "water_dev", "sleep_dev", "composite_score", "recommendation">>
IntColumns == {"day_in_cycle", "period"}
TextColumns == {"period_label", "recommendation"}

\* The text to_csv writes for a float: nothing for NaN, else the shortest text
\* that reads back as the same float, so that two floats share a text only if
\* they are equal.
FloatText(x) ==
    IF IsNaN(x) THEN ""
    ELSE IF x[2] = 1 THEN ToString(x[1]) \o ".0"
    ELSE ToString(x[1]) \o "/" \o ToString(x[2])

CellText(c, v) ==
    IF c = "date" THEN "day " \o ToString(v)
    ELSE IF c \in IntColumns THEN ToString(v)
    ELSE IF c \in TextColumns THEN v
    ELSE FloatText(v)

\* df.to_csv(index=False): the header line and one line of texts per row.
ToCsv(df) ==
    [header |-> CsvColumns,
     lines |-> [i \in 1..Len(df) |->
                   [j \in 1..Len(CsvColumns) |->
                       CellText(CsvColumns[j], df[i][CsvColumns[j]])]]]

\* datetime.utcnow().isoformat()
IsoFormat(t) == "T" \o ToString(t)

\* The store's upsert into dashboard_cache: the row replaces the row of the
\* same client_id, or is added when there is none.
Upsert(rows, row) ==
    IF \E i \in 1..Len(rows) : rows[i].client_id = row.client_id
    THEN [i \in 1..Len(rows) |->
             IF rows[i].client_id = row.client_id THEN row ELSE rows[i]]
    ELSE Append(rows, row)

\* Mutant of push_to_supabase: the row is inserted, not upserted.
PushToSupabaseInsert(rows, client_id, df, t) ==
    Append(rows, [client_id |-> client_id, csv_data |-> ToCsv(df),
                  updated_at |-> IsoFormat(t)])

\* push_to_supabase(client_id, df) at the instant t of datetime.utcnow(): the
\* table dashboard_cache after it.
PushToSupabase(rows, client_id, df, t) ==
    Upsert(rows, [client_id |-> client_id, csv_data |-> ToCsv(df),
                  updated_at |-> IsoFormat(t)])

\* list_clients: the active clients.
ListClients == SelectSeq(ClientRows, LAMBDA c : c.active)

\* The dict main passes when the client has no targets.
MainTargets ==
    [weight_change_pct_per_week |-> <<Rat(-3, 4)>>, calories |-> <<Num(2500)>>,
     steps |-> <<Num(8000)>>, water |-> <<Num(2500)>>,
     sleep |-> <<Rat(15, 2)>>]

\* client.get("targets") or the dict above
TargetsOfClient(c) == IF c.targets = None THEN MainTargets ELSE c.targets[1]

\* The export files a run of process_client is pointed at: no record, a
\* record of an unrecognised type, a meal before the window, weigh-ins and a
\* meal within it, and a weigh-in whose date cannot be read.
ExportFiles ==
    {<<>>,
     <<Record(OTHER_TYPE, Iso(Today), <<1>>, "A", "", <<>>)>>,
     <<Record(ENERGY, Iso(Today - MacrocycleDays - 1), <<1>>, "A", "",
              <<>>)>>,
     <<Record(BODY_MASS, Iso(Today), <<1>>, "A", "", <<>>)>>,
     <<Record(BODY_MASS, Iso(Today), <<2>>, "A", "", <<>>)>>,
     <<Record(BODY_MASS, Iso(Today - 1), <<1>>, "A", "", <<>>),
       Record(ENERGY, Iso(Today), <<1>>, "A", "", <<>>)>>,
     <<Record(BODY_MASS, GarbageKey, <<1>>, "A", "", <<>>)>>}

NoDataReport == "ERROR: No matching health data found in the file."
SetUpNotice == "Your dashboard is being set up."

\* Mutant of MainReturnsEarly: main pushes whatever run_engine returned.
MainPushesAnyTable(df) == FALSE

\* Line 108 of main: df is None or df.empty
MainReturnsEarly(df) == df = <<>>

\* main of process_client, for one active client and one export file: it runs
\* the engine and pushes the table, unless the table is empty.  An exception
\* of run_engine ends it.
ProcessClient ==
    /\ utcnow < MaxPushes
    /\ \E i \in 1..Len(ListClients), e \in ExportFiles :
          LET client == ListClients[i]
              t == TargetsOfClient(client)
              df == RunEngine(e, t, now, MacrocycleDays, RollingWindow)
          IN  /\ xml' = e
              /\ targets' = t
              /\ data' = ParseData(e)
              /\ result' = df
              /\ IF df.raised
                 THEN /\ report' = "Traceback"
                      /\ UNCHANGED <<cache, pushed, utcnow>>
                 ELSE IF MainReturnsEarly(df.rows)
                 THEN /\ report' = NoDataReport
                      /\ UNCHANGED <<cache, pushed, utcnow>>
                 ELSE /\ report' = "Done"
                      /\ cache' = PushToSupabase(cache, client.id, df.rows,
                                                 utcnow)
                      /\ pushed' = [pushed EXCEPT ![client.id] = <<df.rows>>]
                      /\ utcnow' = utcnow + 1
    /\ pc' = "done"
    /\ UNCHANGED <<now, rerun, shown, sessionVars>>

\* pd.read_csv(..., parse_dates=["date"]) raises on a text without columns
\* and on one without the column date.
ReadCsvRaises(csv) == csv.header = <<>> \/ ~Contains(csv.header, "date")

\* load_dashboard_data: None, or the lines read from the first row stored for
\* the client.
LoadDashboardData(rows, client_id) ==
    LET res == SelectSeq(rows, LAMBDA r : r.client_id = client_id)
    IN  IF res = <<>> THEN None
        ELSE IF ReadCsvRaises(res[1].csv_data) THEN None
        ELSE <<res[1].csv_data.lines>>

\* Mutant of BeingSetUp: only a missing table is caught.
BeingSetUpWhenNone(df) == df = None

\* Line 60 of render_client: df is None or df.empty
BeingSetUp(df) == df = None \/ df[1] = <<>>

\* What render_client shows for the table it loaded: the notice that the
\* dashboard is being set up, or the dashboard, whose latest row it reads with
\* iloc[-1], an IndexError on a table without rows.
Rendered(df) ==
    IF BeingSetUp(df) THEN SetUpNotice
    ELSE IF df[1] = <<>> THEN "IndexError"
    ELSE "dashboard"

\* render_client(client_id, ...) up to its line 62.
RenderClient ==
    /\ \E c \in ClientIds :
          shown' = [client_id |-> <<c>>,
                    view |-> Rendered(LoadDashboardData(cache, c))]
    /\ UNCHANGED <<xml, pc, now, targets, data, result, rerun, cache, pushed,
                   utcnow, report, sessionVars>>

NextCache == ProcessClient \/ RenderClient

SpecCache == Init /\ [][NextCache]_vars

\* ------------------------------------------------------------------ app.py

COACH_PIN == "000000"

\* The access codes a visitor types: none, the coach's, the one two active
\* clients share, the one of the client who is not active, and one nobody has.
Pins == {"", COACH_PIN, "111111", "222222", "999999"}

\* Lines 37-49 of app.py: what a run renders for the session it finds.
Dispatch(s) ==
    IF s.role = <<"coach">> THEN "coach"
    ELSE IF s.role = <<"client">> THEN "client"
    ELSE "login"

\* Line 67: the active clients with the PIN, in the order of the store.
ClientsWithPin(pin) ==
    SelectSeq(ClientRows, LAMBDA c : c.pin = pin /\ c.active)

\* Lines 59-75: the session after "Continue" is pressed with the text pin.
Login(s, pin) ==
    IF pin = "" THEN s
    ELSE IF pin = COACH_PIN THEN [s EXCEPT !.role = <<"coach">>]
    ELSE IF ClientsWithPin(pin) # <<>>
    THEN [role |-> <<"client">>,
          client_id |-> <<ClientsWithPin(pin)[1].id>>,
          client_name |-> <<ClientsWithPin(pin)[1].name>>]
    ELSE s

\* logout(), and lines 23-25 of the sidebar button.
Logout(s) == NoSession

\* "from app import logout" in a component runs app.py once more, as the
\* module app, within the run that rendered the component: its line 22
\* creates a second button with the key global_logout when a role is set,
\* which streamlit refuses with an exception.
ImportAppRaises(s) == s.role # None

\* The "Log out" button of render_client and of render_coach.
DashboardLogout(s) == IF ImportAppRaises(s) THEN s ELSE Logout(s)

\* "Continue" is pressed on the login screen.
Submit ==
    /\ Dispatch(session) = "login"
    /\ \E pin \in Pins :
          /\ session' = Login(session, pin)
          /\ event' = [kind |-> "submit", pin |-> pin]
          /\ screen' = IF pin # "" /\ Login(session, pin) = session
                       THEN "Invalid access code"
                       ELSE Dispatch(Login(session, pin))
    /\ UNCHANGED <<xml, pc, now, targets, data, result, rerun, storeVars>>

\* "Log out" is pressed in the sidebar.
PressSidebarLogout ==
    /\ session.role # None
    /\ session' = Logout(session)
    /\ event' = [event EXCEPT !.kind = "logout"]
    /\ screen' = Dispatch(Logout(session))
    /\ UNCHANGED <<xml, pc, now, targets, data, result, rerun, storeVars>>

\* "Log out" is pressed in the top bar of a dashboard.
PressDashboardLogout ==
    /\ screen \in {"coach", "client"}
    /\ session' = DashboardLogout(session)
    /\ event' = [event EXCEPT !.kind = "logout"]
    /\ screen' = IF ImportAppRaises(session) THEN "exception"
                 ELSE Dispatch(Logout(session))
    /\ UNCHANGED <<xml, pc, now, targets, data, result, rerun, storeVars>>

\* Any other interaction: app.py runs again on the session as it is.
Rerun ==
    /\ screen \in {"exception", "Invalid access code"}
    /\ screen' = Dispatch(session)
    /\ event' = [event EXCEPT !.kind = "rerun"]
    /\ UNCHANGED <<xml, pc, now, targets, data, result, rerun, storeVars,
                   session>>

NextApp ==
    \/ Submit
    \/ PressSidebarLogout
    \/ PressDashboardLogout
    \/ Rerun
    \/ ProcessClient
    \/ RenderClient

SpecApp == Init /\ [][NextApp]_vars


\* ------------------------------------------------- the vocabulary of the claims

Done == pc = "done"
Returned == pc = "done" /\ ~result.raised
Raised == pc = "done" /\ result.raised
Rows == result.rows

\* A calendar date can be derived from the record's startDate.
Dated(r) == r.date.form \in {"iso", "alt"}
DatedOn(r, d) == Dated(r) /\ r.date.day = d

Recognized(r) == r.type \in {STEP_TYPE, BODY_MASS, ENERGY, WATER, SLEEP_TYPE}

\* The record carries a value the engine can use: a numeric value, or for a
\* sleep record an asleep category with readable start and end.
UsableValue(r) ==
    IF r.type = SLEEP_TYPE
    THEN r.category \in SLEEP_VALUES /\ r.duration # <<>>
    ELSE r.value # <<>>

\* Instants compared in half days: midnight of day d is 2 * d.
CutoffHalfDays == 2 * (now[1] - MacrocycleDays) + now[2]
NowHalfDays == 2 * now[1] + now[2]
BeforeCutoff(d) == 2 * d < CutoffHalfDays
AfterNow(d) == 2 * d > NowHalfDays

\* The record's type feeds the metric.
Feeds(r, c) ==
    CASE c = "weight" -> r.type = BODY_MASS
      [] c = "calories" -> r.type = ENERGY
      [] c = "water" -> r.type = WATER
      [] c = "steps" -> r.type = STEP_TYPE
      [] c = "sleep" -> r.type = SLEEP_TYPE

\* Some record of the export contributes to metric c on day d.
Contributing(c, d) ==
    \E i \in 1..Len(xml) :
        DatedOn(xml[i], d) /\ Feeds(xml[i], c) /\ UsableValue(xml[i])

\* A qualifying record on day d: recognized type, usable value, and a date
\* that is not before the cutoff.
QualifyingOn(d) ==
    \E i \in 1..Len(xml) :
        DatedOn(xml[i], d) /\ Recognized(xml[i]) /\ UsableValue(xml[i])
            /\ ~BeforeCutoff(d)

\* ------------------------------------------------------------------- claims

\* C1 (as claimed): in the table run_engine returns, each of calories, steps,
\* water and sleep that had no contributing record on the row's date is NaN,
\* never 0.
C1_AbsentMetricIsNaN ==
    Returned =>
        \A i \in 1..Len(Rows) :
            \A c \in {"calories", "steps", "water", "sleep"} :
                ~Contributing(c, Rows[i].date) => IsNaN(Rows[i][c])

RemoveAt(recs, i) ==
    [j \in 1..(Len(recs) - 1) |-> IF j < i THEN recs[j] ELSE recs[j + 1]]

\* run_engine invoked on another export at the same instant, with the same
\* configuration.
RunOn(recs) == RunEngine(recs, targets, now, MacrocycleDays, RollingWindow)

\* C4 (as claimed): when the export holds no qualifying record on or after the
\* cutoff, run_engine returns an empty table and does not raise.
C4_EmptyTableWhenNothingQualifies ==
    (Done /\ \A d \in Days : ~QualifyingOn(d)) =>
        ~result.raised /\ Rows = <<>>

\* A record the parser is to skip: no date can be derived from its startDate,
\* its type is unknown, its numeric value is malformed, or it is a sleep
\* record whose timestamps cannot be read.
Skippable(r) ==
    \/ ~Dated(r)
    \/ ~Recognized(r)
    \/ r.type # SLEEP_TYPE /\ r.value = <<>>
    \/ r.type = SLEEP_TYPE /\ r.duration = <<>>

\* C5 (as claimed): a record with a malformed value, an unparseable timestamp
\* or an unknown type never aborts the run, and run_engine yields the table
\* it yields for the export without that record.
C5_BadRecordIsSkipped ==
    Done =>
        \A i \in 1..Len(xml) :
            Skippable(xml[i]) =>
                ~result.raised /\ result = RunOn(RemoveAt(xml, i))

\* C6 (as claimed): a record dated before the cutoff contributes nothing:
\* run_engine yields what it yields for the export without that record.
C6_BeforeCutoffContributesNothing ==
    Done =>
        \A i \in 1..Len(xml) :
            (Dated(xml[i]) /\ BeforeCutoff(xml[i].date.day)) =>
                result = RunOn(RemoveAt(xml, i))

\* Every day of the export is spelled in one way.
OneSpellingPerDay ==
    \A i, j \in 1..Len(xml) :
        (Dated(xml[i]) /\ Dated(xml[j]) /\ xml[i].date.day = xml[j].date.day)
            => xml[i].date = xml[j].date

\* The total of the usable step records of one date string and source, and
\* whether there is any.
RECURSIVE StepTotal(_, _, _)
StepTotal(key, source, i) ==
    IF i = 0 THEN 0
    ELSE StepTotal(key, source, i - 1)
           + (IF /\ xml[i].type = STEP_TYPE /\ xml[i].date = key
                 /\ xml[i].sourceName = source /\ xml[i].value # <<>>
              THEN xml[i].value[1] ELSE 0)

Reported(key, source) ==
    \E i \in 1..Len(xml) :
        /\ xml[i].type = STEP_TYPE /\ xml[i].date = key
        /\ xml[i].sourceName = source /\ xml[i].value # <<>>

Sources == {xml[i].sourceName : i \in 1..Len(xml)}

RECURSIVE TotalOf(_, _)
TotalOf(key, srcs) ==
    IF srcs = {} THEN 0
    ELSE LET s == CHOOSE x \in srcs : TRUE
         IN  StepTotal(key, s, Len(xml)) + TotalOf(key, srcs \ {s})

\* The mean of the totals of the given sources; no value for no source.
MeanOfSources(key, srcs) ==
    IF srcs = {} THEN NaN ELSE Rat(TotalOf(key, srcs), Cardinality(srcs))

StepsOf(key) == data[IndexOf(data, key)].m.steps

WeighIns(d) ==
    SelectSeq(xml, LAMBDA r : r.type = BODY_MASS /\ DatedOn(r, d)
                                /\ r.value # <<>>)

\* C8 (as claimed): on every date of the table that has weigh-ins, the weight
\* is the value of the weigh-in that comes last in document order for that
\* date; a later weigh-in with an unusable value does not count.
C8_LastWeighInOfTheDayWins ==
    Returned =>
        \A i \in 1..Len(Rows) :
            LET w == WeighIns(Rows[i].date)
            IN  w # <<>> => Rows[i].weight = Num(w[Len(w)].value[1])

\* With every day spelled in one way, C8 holds of the model (a lemma that
\* locates the divergence; not the claim).
C8_LastWeighInWinsOneSpelling ==
    (Returned /\ OneSpellingPerDay) =>
        \A i \in 1..Len(Rows) :
            LET w == WeighIns(Rows[i].date)
            IN  w # <<>> => Rows[i].weight = Num(w[Len(w)].value[1])

\* The rows of the table, by index, whose day had a usable weigh-in.
WeighInRows == {j \in 1..Len(Rows) : WeighIns(Rows[j].date) # <<>>}

SetMax(S) == CHOOSE x \in S : \A y \in S : y <= x
SetMin(S) == CHOOSE x \in S : \A y \in S : x <= y

\* C9: each row's weight is the weight of the most recent row at or before it
\* whose day had a weigh-in, or, before the first weigh-in, the weight of the
\* first such row; a weigh-in row carries a value weighed that day; and with
\* a weigh-in on any retained day no row's weight is missing.
C9_WeightForwardThenBackFilled ==
    Returned =>
        \A i \in 1..Len(Rows) :
            LET upTo == {j \in WeighInRows : j <= i}
            IN  /\ i \in WeighInRows =>
                      \E k \in 1..Len(WeighIns(Rows[i].date)) :
                          Rows[i].weight
                              = Num(WeighIns(Rows[i].date)[k].value[1])
                /\ upTo # {} => Rows[i].weight = Rows[SetMax(upTo)].weight
                /\ (upTo = {} /\ WeighInRows # {}) =>
                      Rows[i].weight = Rows[SetMin(WeighInRows)].weight
                /\ WeighInRows # {} => ~IsNaN(Rows[i].weight)
                /\ WeighInRows = {} => IsNaN(Rows[i].weight)

\* C9 witness: three rows, a weigh-in on the day of the second only, and the
\* first and the third row carry its weight.
C9_Witness ==
    /\ Returned
    /\ Len(Rows) = 3
    /\ WeighInRows = {2}
    /\ ~IsNaN(Rows[2].weight)
    /\ Rows[1].weight = Rows[2].weight
    /\ Rows[3].weight = Rows[2].weight

AvgCol(c) ==
    CASE c = "weight" -> "weight_avg"
      [] c = "calories" -> "calories_avg"
      [] c = "steps" -> "steps_avg"
      [] c = "water" -> "water_avg"
      [] c = "sleep" -> "sleep_avg"

MetricNames == {"weight", "calories", "steps", "water", "sleep"}

\* Parsing produced a value of metric c for day d.
ParsedValue(c, d) ==
    \E k \in 1..Len(data) :
        Dated([date |-> data[k].key]) /\ data[k].key.day = d
            /\ ~IsNaN(data[k].m[c])

\* The raw value of metric c in row j: the filled weight, and for the other
\* metrics the day's value, missing when parsing produced none for the day.
RawValue(j, c) ==
    IF c = "weight" \/ ParsedValue(c, Rows[j].date) THEN Rows[j][c] ELSE NaN

RECURSIVE SumRows(_, _)
SumRows(col, js) ==
    IF js = {} THEN Num(0)
    ELSE LET j == CHOOSE x \in js : TRUE
         IN  FAdd(col[j], SumRows(col, js \ {j}))

\* The mean of the values of col that are not missing in the rows
\* max(1, i - window + 1)..i; missing when all are.
WindowMean(col, i, window) ==
    LET lo == IF i - window + 1 < 1 THEN 1 ELSE i - window + 1
        js == {j \in lo..i : ~IsNaN(col[j])}
    IN  IF js = {} THEN NaN ELSE FDivInt(SumRows(col, js), Cardinality(js))

\* C10 (as claimed): for every metric and row, {metric}_avg is the mean of the
\* raw values of the metric that are not missing in the trailing window of
\* rolling_window rows, days without a value being left out of the
\* denominator.
C10_RollingMeanSkipsMissingDays ==
    Returned =>
        \A c \in MetricNames :
            LET raw == [j \in 1..Len(Rows) |-> RawValue(j, c)]
            IN  \A i \in 1..Len(Rows) :
                    Rows[i][AvgCol(c)] = WindowMean(raw, i, RollingWindow)

\* Over the columns of the table itself, where a day without a value already
\* reads 0 (C1), the rolling mean is the window mean (a lemma that locates
\* the divergence; not the claim).
C10_RollingMeanOfTableColumns ==
    Returned =>
        \A c \in MetricNames :
            LET col == [j \in 1..Len(Rows) |-> Rows[j][c]]
            IN  \A i \in 1..Len(Rows) :
                    Rows[i][AvgCol(c)] = WindowMean(col, i, RollingWindow)

\* C11: every row's period_label is "Period k", k being the block of
\* rolling_window days, counted from the first date of the table, that holds
\* the row's date; the first row is in Period 1, k never decreases along the
\* rows, and two rows of one period are less than rolling_window days apart.
C11_PeriodLabelFromFirstDate ==
    Returned =>
        /\ \A i \in 1..Len(Rows) :
              \E k \in 1..(MaxDay + 1) :
                  /\ (k - 1) * RollingWindow <= Rows[i].date - Rows[1].date
                  /\ Rows[i].date - Rows[1].date < k * RollingWindow
                  /\ Rows[i].period = k
                  /\ Rows[i].period_label = "Period " \o ToString(k)
        /\ Len(Rows) >= 1 => Rows[1].period_label = "Period 1"
        /\ \A i, j \in 1..Len(Rows) :
              /\ i <= j => Rows[i].period <= Rows[j].period
              /\ (i <= j /\ Rows[i].period_label = Rows[j].period_label)
                    => Rows[j].date - Rows[i].date < RollingWindow

\* C11 witness: the table's dates have a gap, and the row after the gap is
\* in Period 2.
C11_Witness ==
    /\ Returned
    /\ \E i \in 1..(Len(Rows) - 1) :
          /\ Rows[i + 1].date > Rows[i].date + 1
          /\ Rows[i].period_label = "Period 1"
          /\ Rows[i + 1].period_label = "Period 2"

C13_NoWeightChangeNoScore ==
    Returned =>
        \A i \in 1..Len(Rows) :
            IsNaN(Rows[i].weight_pct_change) =>
                /\ IsNaN(Rows[i].composite_score)
                /\ Rows[i].recommendation = "Insufficient data"

\* C13 witness: a table whose first row has all four deviations but no
\* weight_pct_change, no score and "Insufficient data", while a later row has
\* a weight_pct_change, a score and another recommendation.
C13_Witness ==
    /\ Returned
    /\ Len(Rows) > RollingWindow
    /\ IsNaN(Rows[1].weight_pct_change)
    /\ \A c \in {"cal_dev", "steps_dev", "water_dev", "sleep_dev"} :
          ~IsNaN(Rows[1][c])
    /\ IsNaN(Rows[1].composite_score)
    /\ Rows[1].recommendation = "Insufficient data"
    /\ ~IsNaN(Rows[Len(Rows)].composite_score)
    /\ Rows[Len(Rows)].recommendation # "Insufficient data"

\* The rules of recommend as the spec numbers them, a missing sleep_dev or
\* water_dev counting as 0.
OrZero(x) == IF IsNaN(x) THEN Num(0) ELSE x

RuleHolds(k, row, t) ==
    CASE k = 1 -> IsNaN(row.composite_score) \/ IsNaN(row.weight_pct_change)
      [] k = 2 -> FLess(row.composite_score, Rat(3, 10))
      [] k = 3 -> FLess(FAdd(t, Rat(3, 10)), row.weight_pct_change)
      [] k = 4 -> FLess(row.weight_pct_change, FSub(t, Rat(3, 10)))
      [] k = 5 -> FLess(OrZero(row.sleep_dev), Num(-20))
      [] k = 6 -> FLess(OrZero(row.water_dev), Num(-20))
      [] k = 7 -> TRUE

RuleLabel ==
    <<"Insufficient data",
      "Behaviours aligned -> hold steady",
      "Loss too slow -> reduce calories slightly",
      "Loss too aggressive -> increase calories slightly",
      "Sleep deficit detected -> prioritise recovery",
      "Under-hydrated -> increase daily water intake",
      "Monitor trend -> small adjustments if needed">>

\* C14: the recommendation of every row is the label of the first of the
\* seven rules, in their order, whose condition holds for the row.
C14_FirstMatchingRuleWins ==
    Returned =>
        \A i \in 1..Len(Rows) :
            LET t == TargetOf(targets, "weight_change_pct_per_week")
                first == SetMin({k \in 1..7 : RuleHolds(k, Rows[i], t)})
            IN  Rows[i].recommendation = RuleLabel[first]

\* C14 witness: a row with score 0.5, weight_pct_change = target + 0.35 and
\* sleep_dev = -25 got the label of "loss too slow".
C14_Witness ==
    /\ Returned
    /\ Len(Rows) = 1
    /\ Rows[1].composite_score = Rat(1, 2)
    /\ Rows[1].weight_pct_change
          = FAdd(TargetOf(targets, "weight_change_pct_per_week"), Rat(7, 20))
    /\ Rows[1].sleep_dev = Num(-25)
    /\ Rows[1].recommendation = "Loss too slow -> reduce calories slightly"

\* C15 (as claimed): two invocations of run_engine with the same export,
\* targets, macrocycle_days and rolling_window return the same table,
\* whenever each of them is invoked.
C15_SameInputSameTable ==
    pc = "again" => rerun[1].result = result


\* The rows dashboard_cache holds for a client, and what the store keeps of
\* every row besides the time of the write.
RowsOf(c) == SelectSeq(cache, LAMBDA r : r.client_id = c)
StoredCsv(rows) ==
    [i \in 1..Len(rows) |->
        [client_id |-> rows[i].client_id, csv_data |-> rows[i].csv_data]]

\* C16: after any sequence of pushes, dashboard_cache holds at most one row
\* per client_id, none for a client nothing was pushed for, and the row
\* carries the text of the table pushed last; pushing that table once more
\* leaves every stored csv_data as it is.
C16_OneRowPerClientLastPushWins ==
    \A c \in ClientIds :
        /\ Len(RowsOf(c)) <= 1
        /\ pushed[c] = None => RowsOf(c) = <<>>
        /\ pushed[c] # None =>
              /\ Len(RowsOf(c)) = 1
              /\ RowsOf(c)[1].csv_data = ToCsv(pushed[c][1])
              /\ StoredCsv(PushToSupabase(cache, c, pushed[c][1], utcnow))
                    = StoredCsv(cache)

\* Three pushes were made, two of them for one client, the later one with
\* another table than the one before or with the same one; each of the two
\* clients has one row.
C16_Witness ==
    /\ utcnow = MaxPushes
    /\ Len(cache) = 2
    /\ \E i \in 1..2 : cache[i].updated_at = IsoFormat(0)
    /\ \E i \in 1..2 : cache[i].updated_at = IsoFormat(MaxPushes - 1)

\* A step of main: render_client changes nothing but shown.
MainStep ==
    <<xml, pc, targets, data, result, cache, pushed, utcnow, report>>'
        # <<xml, pc, targets, data, result, cache, pushed, utcnow, report>>

\* A text stored for a table without rows, whatever its columns.
EmptyCsvs ==
    {[header |-> h, lines |-> <<>>] :
        h \in {<<>>, <<"date">>, <<"weight">>, CsvColumns}}

\* C17: a run of main in which run_engine returns an empty table reports that
\* no data was found and leaves dashboard_cache as it was; render_client shows
\* the notice that the dashboard is being set up for a client without a cached
\* row, and for one whose cached text holds no row or cannot be read.
C17_EmptyTableNoWriteAndSetUpNotice ==
    /\ [][(MainStep /\ ~result'.raised /\ result'.rows = <<>>)
              => (cache' = cache /\ report' = NoDataReport)]_vars
    /\ [](/\ shown.view # "IndexError"
          /\ (shown.client_id # None /\ RowsOf(shown.client_id[1]) = <<>>)
                => shown.view = SetUpNotice
          /\ \A c \in ClientIds, csv \in EmptyCsvs :
                Rendered(LoadDashboardData(
                    <<[client_id |-> c, csv_data |-> csv,
                       updated_at |-> IsoFormat(utcnow)]>>, c))
                    = SetUpNotice)

\* The last run of main was for the client c3, who has a cached row, on an
\* export without data in the window; the dashboard of c1, who has none, was
\* rendered.
C17_Witness ==
    /\ report = NoDataReport
    /\ targets = SmallTargets
    /\ RowsOf("c3") # <<>>
    /\ shown.client_id = <<"c1">>
    /\ RowsOf("c1") = <<>>
    /\ shown.view = SetUpNotice

\* The client of the table clients a session names.
SessionClients ==
    {i \in 1..Len(ClientRows) :
        /\ session.client_id = <<ClientRows[i].id>>
        /\ session.client_name = <<ClientRows[i].name>>}

\* The part of C18 about the sessions themselves: the role is client exactly
\* when client_id and client_name name an active client with the access code
\* submitted last, no other role has them, and a login that failed found and
\* left the session without a role.
SessionIsConsistent ==
    /\ session.role \in {None, <<"coach">>, <<"client">>}
    /\ session.role = <<"client">> <=>
          (session.client_id # None /\ session.client_name # None)
    /\ session.role = <<"client">> =>
          \E i \in SessionClients :
              ClientRows[i].active /\ ClientRows[i].pin = event.pin
    /\ (event.kind = "submit" /\ screen \in {"login", "Invalid access code"})
          => session = NoSession

\* C18 (as claimed): in every session state the role, client_id and
\* client_name agree as above, and after a logout all three are None and the
\* login screen is shown.
C18_SessionStateAndLogout ==
    /\ SessionIsConsistent
    /\ event.kind = "logout" => (session = NoSession /\ screen = "login")
====
